---- MODULE Spec2Model ----
(***************************************************************************)
(* MultiMap<K, V> of src/src/lib.rs: a wrapper around HashMap<K, Vec<V>>.  *)
(* A map is a function from the set of present keys to sequences of        *)
(* values.  Every operation of the type is an operator on such a map, and  *)
(* an action that applies it to the program's map and records the call,    *)
(* the map before the call and what the call returned.                     *)
(***************************************************************************)
EXTENDS Naturals, Integers, Sequences, FiniteSets, TLC

\* Keys and values the callers pass (the keys and values of the tests).
Keys == {1, 2}
Vals == {3, 5}
Pairs == Keys \X Vals

\* Longest per-key vector the bounded callers grow.
MaxLen == 3
\* Longest sequence of pairs handed to from_iter at construction.
MaxPairs == 3
\* Longest sequence of inserts recorded for a map in the two-map runs.
MaxLog == 3

VARIABLES data, pre, call, ret, other, log, otherLog

vars == <<data, pre, call, ret, other, log, otherLog>>

\* All sequences over S of length at most n.
SeqsUpTo(S, n) == UNION {[1..i -> S] : i \in 0..n}

-----------------------------------------------------------------------------
(* std HashMap<K, Vec<V>> as the wrapper uses it *)

\* HashMap::new(): no entries.
HashMapNew == [x \in {} |-> <<>>]

\* HashMap::contains_key
HashMapContainsKey(m, k) == k \in DOMAIN m

\* HashMap::insert(k, vec): adds or replaces the entry of k.
HashMapInsert(m, k, s) == [x \in (DOMAIN m) \cup {k} |-> IF x = k THEN s ELSE m[x]]

\* HashMap::remove(k): drops the entry, true iff there was one.
HashMapRemove(m, k) ==
    [data |-> [x \in (DOMAIN m) \ {k} |-> m[x]], found |-> k \in DOMAIN m]

\* HashMap::get / get_mut: the entry's vector, failing when there is none.
HashMapGet(m, k) ==
    IF k \in DOMAIN m THEN [failed |-> FALSE, vec |-> m[k]]
                      ELSE [failed |-> TRUE, vec |-> <<>>]

\* VecEq with the positions ignored.
VecEqUnordered(s, t) ==
    Len(s) = Len(t) /\ \A i \in 1..Len(s) : \E j \in 1..Len(t) : s[i] = t[j]

\* Vec<V> == Vec<V>: same length and equal elements position by position.
VecEq(s, t) == Len(s) = Len(t) /\ \A i \in 1..Len(s) : s[i] = t[i]

\* HashMap == HashMap: same number of entries and every entry of the one is
\* found in the other with an equal vector.
HashMapEq(m, o) ==
    /\ Cardinality(DOMAIN m) = Cardinality(DOMAIN o)
    /\ \A k \in DOMAIN m : k \in DOMAIN o /\ VecEq(m[k], o[k])

-----------------------------------------------------------------------------
(* What a call hands back *)

Returned(kind, b, s, p, n) ==
    [kind |-> kind, bool |-> b, seq |-> s, pairs |-> p, n |-> n]

Panic == Returned("panic", FALSE, <<>>, <<>>, 0)
RetUnit == Returned("unit", FALSE, <<>>, <<>>, 0)
RetBool(b) == Returned("bool", b, <<>>, <<>>, 0)
RetSeq(s) == Returned("seq", FALSE, s, <<>>, 0)
RetPairs(p) == Returned("pairs", FALSE, <<>>, p, 0)
RetCount(n) == Returned("count", FALSE, <<>>, <<>>, n)

\* The call record: operation, key and value arguments (0 when it has none),
\* and for get_mut what the caller then does with the vector it was handed.
Call(op, k, v, w) == [op |-> op, k |-> k, v |-> v, w |-> w]

-----------------------------------------------------------------------------
(* MultiMap operations, each giving the map after the call and its result *)

Outcome(m, r) == [data |-> m, ret |-> r]

new == HashMapNew

with_capacity_and_default_hasher(capacity) == HashMapNew

len(m) == Cardinality(DOMAIN m)

is_empty(m) == DOMAIN m = {}

clear(m) == HashMapNew

eq(m, o) == HashMapEq(m, o)

\* get handing out an empty vector for a missing key.
get_or_empty(m, k) ==
    LET r == HashMapGet(m, k)
    IN  Outcome(m, RetSeq(r.vec))

get(m, k) ==
    LET r == HashMapGet(m, k)
    IN  IF r.failed THEN Outcome(m, Panic) ELSE Outcome(m, RetSeq(r.vec))

contains_key(m, k) == HashMapContainsKey(m, k)

\* insert skipping a value the key already holds.
insert_dedup(m, k, v) ==
    IF HashMapContainsKey(m, k)
    THEN IF \E i \in 1..Len(m[k]) : m[k][i] = v
         THEN Outcome(m, RetUnit)
         ELSE Outcome([m EXCEPT ![k] = Append(m[k], v)], RetUnit)
    ELSE Outcome(HashMapInsert(m, k, <<v>>), RetUnit)

\* insert putting the value in front.
insert_front(m, k, v) ==
    IF HashMapContainsKey(m, k)
    THEN Outcome([m EXCEPT ![k] = <<v>> \o m[k]], RetUnit)
    ELSE Outcome(HashMapInsert(m, k, <<v>>), RetUnit)

insert(m, k, v) ==
    IF HashMapContainsKey(m, k)
    THEN LET r == HashMapGet(m, k)
         IN  IF r.failed THEN Outcome(m, Panic)
             ELSE Outcome([m EXCEPT ![k] = Append(r.vec, v)], RetUnit)
    ELSE Outcome(HashMapInsert(m, k, <<v>>), RetUnit)

\* remove dropping the key's last value only, and the key with its last one.
remove_last(m, k) ==
    IF k \in DOMAIN m /\ Len(m[k]) > 1
    THEN Outcome([m EXCEPT ![k] = SubSeq(m[k], 1, Len(m[k]) - 1)], RetBool(TRUE))
    ELSE Outcome(HashMapRemove(m, k).data, RetBool(HashMapRemove(m, k).found))

remove(m, k) ==
    LET r == HashMapRemove(m, k)
    IN  Outcome(r.data, RetBool(r.found))

\* The loop stopping to filter after the first match.
RECURSIVE KeepOthersFirst(_, _)
KeepOthersFirst(vec, v) ==
    IF vec = <<>> THEN <<>>
    ELSE IF Head(vec) # v THEN <<Head(vec)>> \o KeepOthersFirst(Tail(vec), v)
         ELSE Tail(vec)

\* The loop of remove_value: the elements of vec that differ from v, in order.
RECURSIVE KeepOthers(_, _)
KeepOthers(vec, v) ==
    IF vec = <<>> THEN <<>>
    ELSE IF Head(vec) # v THEN <<Head(vec)>> \o KeepOthers(Tail(vec), v)
         ELSE KeepOthers(Tail(vec), v)

\* remove_value storing the filtered vector even when it is empty.
remove_value_keeps_key(m, k, v) ==
    IF HashMapContainsKey(m, k)
    THEN Outcome([m EXCEPT ![k] = KeepOthers(m[k], v)], RetBool(TRUE))
    ELSE Outcome(m, RetBool(FALSE))

\* remove_value reporting whether the value was found.
remove_value_found(m, k, v) ==
    IF HashMapContainsKey(m, k)
    THEN LET new_vec == KeepOthers(m[k], v)
         IN  IF new_vec = <<>>
             THEN Outcome(HashMapRemove(m, k).data, RetBool(new_vec # m[k]))
             ELSE Outcome([m EXCEPT ![k] = new_vec], RetBool(new_vec # m[k]))
    ELSE Outcome(m, RetBool(FALSE))

remove_value(m, k, v) ==
    IF HashMapContainsKey(m, k)
    THEN LET g == get(m, k)
             new_vec == KeepOthers(g.ret.seq, v)
         IN  IF g.ret.kind = "panic" THEN Outcome(m, Panic)
             ELSE IF new_vec = <<>>
                  THEN Outcome(remove(m, k).data, RetBool(TRUE))
                  ELSE LET h == HashMapGet(m, k)
                       IN  IF h.failed THEN Outcome(m, Panic)
                           ELSE Outcome([m EXCEPT ![k] = new_vec], RetBool(TRUE))
    ELSE Outcome(m, RetBool(FALSE))

\* What a caller does with the &mut Vec<V> that get_mut hands out.
Writes == {"none", "clear", "pop", "push"}

VecWrite(vec, w, v) ==
    CASE w = "clear" -> <<>>
      [] w = "push" -> Append(vec, v)
      [] w = "pop" -> IF vec = <<>> THEN vec ELSE SubSeq(vec, 1, Len(vec) - 1)
      [] OTHER -> vec

\* get_mut dropping a key whose vector the caller left empty.
get_mut_repair(m, k, w, v) ==
    LET r == HashMapGet(m, k)
    IN  IF r.failed THEN Outcome(m, Panic)
        ELSE IF VecWrite(r.vec, w, v) = <<>>
             THEN Outcome(HashMapRemove(m, k).data, RetSeq(r.vec))
             ELSE Outcome([m EXCEPT ![k] = VecWrite(r.vec, w, v)], RetSeq(r.vec))

\* get_mut returns the entry's own vector; the caller's write lands in the map
\* as it is, and the map looks at it again only on its next call.
get_mut(m, k, w, v) ==
    LET r == HashMapGet(m, k)
    IN  IF r.failed THEN Outcome(m, Panic)
        ELSE Outcome([m EXCEPT ![k] = VecWrite(r.vec, w, v)], RetSeq(r.vec))

\* The orders in which HashMap::iter may visit the entries.
KeyOrders(m) ==
    {o \in [1..Cardinality(DOMAIN m) -> DOMAIN m] :
        \A i, j \in 1..Cardinality(DOMAIN m) : i # j => o[i] # o[j]}

\* The key given once instead of repeated: zip stops after one pair.
OnceZip(k, vec) == [i \in 1..(IF vec = <<>> THEN 0 ELSE 1) |-> <<k, vec[i]>>]

\* Repeat::new(k).zip(vec.iter()), each pair cloned.
RepeatZip(k, vec) == [i \in 1..Len(vec) |-> <<k, vec[i]>>]

RECURSIVE as_vec(_, _)
as_vec(m, order) ==
    IF order = <<>> THEN <<>>
    ELSE RepeatZip(Head(order), m[Head(order)]) \o as_vec(m, Tail(order))

\* The loop of from_iter: insert each pair, first to last.
RECURSIVE InsertAll(_, _)
InsertAll(m, pairs) ==
    IF pairs = <<>> THEN m
    ELSE InsertAll(insert(m, Head(pairs)[1], Head(pairs)[2]).data, Tail(pairs))

from_iter(pairs) == InsertAll(with_capacity_and_default_hasher(Len(pairs)), pairs)

-----------------------------------------------------------------------------
(* One program, one map: every call of the API on `data` *)

Do(c, o) ==
    /\ data' = o.data
    /\ pre' = data
    /\ call' = c
    /\ ret' = o.ret
    /\ UNCHANGED <<other, log, otherLog>>

Init ==
    /\ \/ data = new /\ call = Call("new", 0, 0, "")
       \/ \E pairs \in SeqsUpTo(Pairs, MaxPairs) :
             data = from_iter(pairs) /\ call = Call("from_iter", 0, 0, "")
    /\ log = <<>>
    /\ pre = new
    /\ ret = RetUnit
    /\ other = new
    /\ otherLog = <<>>

Insert(k, v) ==
    /\ k \in DOMAIN data => Len(data[k]) < MaxLen
    /\ Do(Call("insert", k, v, ""), insert(data, k, v))

Remove(k) == Do(Call("remove", k, 0, ""), remove(data, k))

RemoveValue(k, v) == Do(Call("remove_value", k, v, ""), remove_value(data, k, v))

Clear == Do(Call("clear", 0, 0, ""), Outcome(clear(data), RetUnit))

Get(k) == Do(Call("get", k, 0, ""), get(data, k))

GetMut(k, w, v) ==
    /\ w = "push" => (k \in DOMAIN data => Len(data[k]) < MaxLen)
    /\ w # "push" => v = 0
    /\ Do(Call("get_mut", k, v, w), get_mut(data, k, w, v))

ContainsKey(k) ==
    Do(Call("contains_key", k, 0, ""), Outcome(data, RetBool(contains_key(data, k))))

LenCall == Do(Call("len", 0, 0, ""), Outcome(data, RetCount(len(data))))

IsEmpty == Do(Call("is_empty", 0, 0, ""), Outcome(data, RetBool(is_empty(data))))

AsVec ==
    \E order \in KeyOrders(data) :
        Do(Call("as_vec", 0, 0, ""), Outcome(data, RetPairs(as_vec(data, order))))

\* The calls that go through the map's own methods only.
NextOwn ==
    \/ \E k \in Keys, v \in Vals : Insert(k, v)
    \/ \E k \in Keys : Remove(k)
    \/ \E k \in Keys, v \in Vals : RemoveValue(k, v)
    \/ Clear
    \/ \E k \in Keys : Get(k)
    \/ \E k \in Keys : ContainsKey(k)
    \/ LenCall
    \/ IsEmpty
    \/ AsVec

Next ==
    \/ \E k \in Keys, v \in Vals : Insert(k, v)
    \/ \E k \in Keys : Remove(k)
    \/ \E k \in Keys, v \in Vals : RemoveValue(k, v)
    \/ Clear
    \/ \E k \in Keys : Get(k)
    \/ \E k \in Keys, w \in Writes, v \in Vals \cup {0} : GetMut(k, w, v)
    \/ \E k \in Keys : ContainsKey(k)
    \/ LenCall
    \/ IsEmpty
    \/ AsVec

\* Every caller, including those that write through get_mut's handle.
Spec == Init /\ [][Next]_vars

\* Callers that use insert, remove, remove_value, clear and the queries only.
SpecOwn == Init /\ [][NextOwn]_vars

-----------------------------------------------------------------------------
(* Two maps: `data` filled by insert calls on new(), `other` filled by      *)
(* insert calls or collected by from_iter from the pairs given to `data`;   *)
(* log and otherLog are the pairs each map was given, in order.             *)

InitTwo ==
    /\ data = new
    /\ other = new
    /\ log = <<>>
    /\ otherLog = <<>>
    /\ pre = new
    /\ call = Call("new", 0, 0, "")
    /\ ret = RetUnit

InsertSelf(k, v) ==
    /\ Len(log) < MaxLog
    /\ data' = insert(data, k, v).data
    /\ ret' = insert(data, k, v).ret
    /\ log' = Append(log, <<k, v>>)
    /\ call' = Call("insert", k, v, "")
    /\ UNCHANGED <<pre, other, otherLog>>

InsertOther(k, v) ==
    /\ Len(otherLog) < MaxLog
    /\ other' = insert(other, k, v).data
    /\ ret' = insert(other, k, v).ret
    /\ otherLog' = Append(otherLog, <<k, v>>)
    /\ call' = Call("other.insert", k, v, "")
    /\ UNCHANGED <<pre, data, log>>

Collect ==
    /\ other' = from_iter(log)
    /\ otherLog' = log
    /\ ret' = RetUnit
    /\ call' = Call("from_iter", 0, 0, "")
    /\ UNCHANGED <<pre, data, log>>

EqCall ==
    /\ ret' = RetBool(eq(data, other))
    /\ call' = Call("eq", 0, 0, "")
    /\ UNCHANGED <<pre, data, other, log, otherLog>>

NextTwo ==
    \/ \E k \in Keys, v \in Vals : InsertSelf(k, v)
    \/ \E k \in Keys, v \in Vals : InsertOther(k, v)
    \/ Collect
    \/ EqCall

SpecTwo == InitTwo /\ [][NextTwo]_vars

-----------------------------------------------------------------------------
(* Properties.  In a state reached by a call, `pre` is the map before the   *)
(* call, `call` the call, `ret` what it returned and `data` the map after.  *)

\* Helpers of the properties, written without the operators of the model.
Occurs(s, v) == \E i \in 1..Len(s) : s[i] = v

Without(s, v) == LET Differs(x) == x # v IN SelectSeq(s, Differs)

Times(s, x) == Cardinality({i \in 1..Len(s) : s[i] = x})

\* The values that the pairs of key k carry, in the order of the pairs.
ValuesOf(pairs, k) ==
    LET OfKey(p) == p[1] = k
        sel == SelectSeq(pairs, OfKey)
    IN  [i \in 1..Len(sel) |-> sel[i][2]]

RECURSIVE TotalValues(_, _)
TotalValues(m, S) ==
    IF S = {} THEN 0
    ELSE LET k == CHOOSE x \in S : TRUE
         IN  Len(m[k]) + TotalValues(m, S \ {k})

\* Every key other than k is present in both maps or in neither, with the
\* same sequence.
OthersUnchanged(k) ==
    /\ (DOMAIN data) \ {k} = (DOMAIN pre) \ {k}
    /\ \A x \in (DOMAIN pre) \ {k} : data[x] = pre[x]

\* C1 (invariant I1): under insert, remove, remove_value and clear from new()
\* or from_iter(pairs), every key present in the map has at least one value.
C1_NonEmptySequences == \A k \in DOMAIN data : Len(data[k]) >= 1

\* remove_value has removed the last values of a key, several equal ones at
\* once, and the key with them.
C1_Witness ==
    /\ call.op = "remove_value"
    /\ call.k \in DOMAIN pre
    /\ Len(pre[call.k]) >= 2
    /\ call.k \notin DOMAIN data

\* C2: insert(k, v) never fails; a present k gets v appended after its
\* unchanged elements (also when v already occurs), an absent k gets <<v>>,
\* and every other key keeps its sequence.
C2_InsertAppends ==
    call.op = "insert" =>
        /\ ret.kind = "unit"
        /\ call.k \in DOMAIN data
        /\ call.k \in DOMAIN pre =>
              /\ Len(data[call.k]) = Len(pre[call.k]) + 1
              /\ \A i \in 1..Len(pre[call.k]) : data[call.k][i] = pre[call.k][i]
              /\ data[call.k][Len(data[call.k])] = call.v
        /\ call.k \notin DOMAIN pre => data[call.k] = <<call.v>>
        /\ OthersUnchanged(call.k)

\* insert of a value the key already holds, next to another key.
C2_Witness ==
    /\ call.op = "insert"
    /\ call.k \in DOMAIN pre
    /\ Occurs(pre[call.k], call.v)
    /\ Len(data[call.k]) = 3
    /\ DOMAIN pre = Keys

\* C3: remove_value(k, v) on a present key leaves exactly the elements that
\* differ from v, in their order; when none is left the key is gone
\* (contains_key false, len one less); every other key keeps its sequence.
C3_RemoveValueFilters ==
    (call.op = "remove_value" /\ call.k \in DOMAIN pre) =>
        /\ Without(pre[call.k], call.v) # <<>> =>
              /\ call.k \in DOMAIN data
              /\ data[call.k] = Without(pre[call.k], call.v)
        /\ Without(pre[call.k], call.v) = <<>> =>
              /\ ~contains_key(data, call.k)
              /\ len(data) = len(pre) - 1
        /\ OthersUnchanged(call.k)

\* remove_value took two occurrences of v out of a sequence that keeps another
\* element.
C3_Witness ==
    /\ call.op = "remove_value"
    /\ call.k \in DOMAIN pre
    /\ Times(pre[call.k], call.v) >= 2
    /\ call.k \in DOMAIN data
    /\ DOMAIN pre = Keys

\* C4 as stated: remove_value(k, v) returns true iff k was present; the map is
\* unchanged when k is absent, and unchanged when k is present and v does not
\* occur in its sequence.
C4_AsStated ==
    call.op = "remove_value" =>
        /\ ret.kind = "bool"
        /\ ret.bool <=> call.k \in DOMAIN pre
        /\ call.k \notin DOMAIN pre => data = pre
        /\ (call.k \in DOMAIN pre /\ ~Occurs(pre[call.k], call.v)) => data = pre

\* C4 amended: remove_value(k, v) returns true iff k was present; the map is
\* unchanged when k is absent, and unchanged when k is present with a
\* non-empty sequence in which v does not occur; a present k whose sequence
\* is empty is removed.
C4_ReturnsKeyPresence ==
    call.op = "remove_value" =>
        /\ ret.kind = "bool"
        /\ ret.bool <=> call.k \in DOMAIN pre
        /\ call.k \notin DOMAIN pre => data = pre
        /\ (call.k \in DOMAIN pre /\ pre[call.k] # <<>> /\ ~Occurs(pre[call.k], call.v))
              => data = pre
        /\ (call.k \in DOMAIN pre /\ pre[call.k] = <<>>)
              => (call.k \notin DOMAIN data /\ OthersUnchanged(call.k))

\* remove_value returned true for a present key that does not hold v.
C4_Witness ==
    /\ call.op = "remove_value"
    /\ call.k \in DOMAIN pre
    /\ pre[call.k] # <<>>
    /\ ~Occurs(pre[call.k], call.v)
    /\ ret.bool

\* C5: remove(k) returns true iff k was present; a present k is gone with all
\* its values and len is one less; with k absent the map is unchanged; every
\* other key keeps its sequence.
C5_RemoveDropsKey ==
    call.op = "remove" =>
        /\ ret.kind = "bool"
        /\ ret.bool <=> call.k \in DOMAIN pre
        /\ call.k \in DOMAIN pre =>
              /\ ~contains_key(data, call.k)
              /\ len(data) = len(pre) - 1
        /\ call.k \notin DOMAIN pre => data = pre
        /\ OthersUnchanged(call.k)

\* remove of a key that held several values, next to another key.
C5_Witness ==
    /\ call.op = "remove"
    /\ call.k \in DOMAIN pre
    /\ Len(pre[call.k]) >= 2
    /\ DOMAIN pre = Keys
    /\ ret.bool

\* C6: get and get_mut on an absent key fail, return no sequence and leave the
\* map unchanged; get on a present key returns the key's sequence; no other
\* operation fails.
C6_OnlyLookupsFail ==
    /\ (call.op \in {"get", "get_mut"} /\ call.k \notin DOMAIN pre) =>
          (ret.kind = "panic" /\ data = pre)
    /\ (call.op = "get" /\ call.k \in DOMAIN pre) =>
          (ret.kind = "seq" /\ ret.seq = pre[call.k] /\ data = pre)
    /\ call.op \notin {"get", "get_mut"} => ret.kind # "panic"

\* get failed on a key missing from a map that holds the other key.
C6_Witness ==
    /\ call.op = "get"
    /\ call.k \notin DOMAIN pre
    /\ DOMAIN pre # {}
    /\ ret.kind = "panic"

\* C7: as_vec returns one pair per value occurrence: as many pairs as the
\* sequences hold values, each key's pairs contiguous and in the order of the
\* key's sequence, and the map is unchanged.
C7_AsVecFlattens ==
    call.op = "as_vec" =>
        /\ ret.kind = "pairs"
        /\ data = pre
        /\ Len(ret.pairs) = TotalValues(data, DOMAIN data)
        /\ \A i \in 1..Len(ret.pairs) : ret.pairs[i][1] \in DOMAIN data
        /\ \A k \in DOMAIN data : ValuesOf(ret.pairs, k) = data[k]
        /\ \A i, j \in 1..Len(ret.pairs) :
              (i < j /\ ret.pairs[i][1] = ret.pairs[j][1]) =>
                  \A x \in i..j : ret.pairs[x][1] = ret.pairs[i][1]

\* as_vec of a map with two keys, one of them holding two different values.
C7_Witness ==
    /\ call.op = "as_vec"
    /\ DOMAIN data = Keys
    /\ \E k \in Keys : Len(data[k]) >= 2 /\ data[k][1] # data[k][2]
    /\ Len(ret.pairs) >= 3

\* C8: from_iter(pairs) yields the map that insert of each pair, in input
\* order, builds on new(): each key maps to the input values carrying that
\* key, in input order, and as_vec of the result is a permutation of the
\* input, whatever the order of the keys.
C8_FromIterIsInserts ==
    call.op = "from_iter" =>
        /\ other = data
        /\ eq(other, data)
        /\ \A k \in Keys : contains_key(other, k) <=> Occurs([i \in 1..Len(otherLog) |-> otherLog[i][1]], k)
        /\ \A k \in DOMAIN other : other[k] = ValuesOf(otherLog, k)
        /\ \A order \in KeyOrders(other) :
              /\ Len(as_vec(other, order)) = Len(otherLog)
              /\ \A p \in Pairs : Times(as_vec(other, order), p) = Times(otherLog, p)

\* from_iter of three pairs over both keys, one key carrying two different
\* values.
C8_Witness ==
    /\ call.op = "from_iter"
    /\ Len(otherLog) = 3
    /\ DOMAIN other = Keys
    /\ \E k \in Keys : Len(other[k]) = 2 /\ other[k][1] # other[k][2]

\* C9: two maps are equal iff they have the same keys with the same sequences
\* in the same order: maps given the same pairs per key in the same per-key
\* order are equal however the keys are interleaved, and maps that differ in
\* a key's order or in the number of occurrences of a value are not.
C9_EqIsPerKeySequences ==
    call.op = "eq" =>
        /\ ret.kind = "bool"
        /\ ret.bool <=>
              /\ DOMAIN data = DOMAIN other
              /\ \A k \in DOMAIN data : data[k] = other[k]
        /\ ret.bool <=> \A k \in Keys : ValuesOf(log, k) = ValuesOf(otherLog, k)

\* eq found equal two maps whose three inserts were interleaved differently.
C9_Witness ==
    /\ call.op = "eq"
    /\ ret.bool
    /\ Len(log) = 3
    /\ log # otherLog
    /\ DOMAIN data = Keys

\* A call took key k from present with an empty sequence to anything else.
Restored(k) ==
    /\ k \in DOMAIN pre
    /\ pre[k] = <<>>
    /\ ~(k \in DOMAIN data /\ data[k] = <<>>)

\* get_mut repairs nothing: the key stays, and a key whose sequence the caller
\* emptied is an entry with an empty sequence that contains_key, len and get
\* report; insert, remove, clear and remove_value then end that state, and
\* remove_value does so by removing the key and returning true.
C10_NoRepair ==
    /\ (call.op = "get_mut" /\ call.k \in DOMAIN pre) =>
          /\ contains_key(data, call.k)
          /\ len(data) = len(pre)
          /\ OthersUnchanged(call.k)
          /\ call.w = "clear" =>
                /\ data[call.k] = <<>>
                /\ get(data, call.k).ret = RetSeq(<<>>)
                /\ ~C1_NonEmptySequences
    /\ (call.k \in DOMAIN pre /\ pre[call.k] = <<>>) =>
          /\ call.op = "insert" => data[call.k] = <<call.v>>
          /\ call.op = "remove" => (call.k \notin DOMAIN data /\ ret.bool)
          /\ call.op = "remove_value" => (call.k \notin DOMAIN data /\ ret = RetBool(TRUE))
    /\ call.op = "clear" => data = new

====
